---- MODULE Spec2Model ----
(***************************************************************************)
(* A model of SimpleVector<Type> (simple-vector/simple_vector.h).          *)
(*                                                                         *)
(* A vector is a record                                                    *)
(*   capacity : the capacity field                                         *)
(*   size     : the size field                                             *)
(*   ptr      : the address held by the ArrayPtr member `array`            *)
(*              (0 is nullptr)                                             *)
(*   array    : the contents of the slots of the buffer at that address;   *)
(*              Len(array) is the number of slots really allocated, which  *)
(*              the code never stores and which may differ from capacity   *)
(* Source index i (0-based) is array[i + 1] here.                          *)
(* An iterator or a reference is a record [buf, off]: the address of the   *)
(* buffer it points into and the offset in it.                             *)
(***************************************************************************)
EXTENDS Integers, Sequences, FiniteSets, TLC

\* Largest capacity a call may produce (guards of the actions).
MaxCap == 4
\* Largest size, capacity or initializer list given to a constructor.
MaxCtor == 3
\* Longest run of PushBack calls on one vector (SpecAppend).
MaxAppends == 7
\* Largest capacity of the vectors of a program of two vectors (SpecPair).
MaxPair == 2

\* The element type: a small integer type; Type() is 0.
Values == {0, 1}
DefaultValue == 0
\* Addresses operator new[] may return (two vectors and one temporary live at once).
Addresses == {1, 2, 3}
NullPtr == 0

VARIABLES
    a,        \* the vector under test: the member functions are called on it
    asserts,  \* the build: TRUE when assert() is compiled in (no NDEBUG)
    status,   \* "running" | "assert_abort" | "ub" (undefined behaviour was executed)
    last,     \* the last call: its name, arguments, result
    before,   \* the live sequence of a before the Insert that `last` undoes or is
    b,        \* a second vector, for the calls that take two (SpecPair, SpecTwin)
    appends,  \* the PushBack calls of SpecAppend: how many, how many allocated
    heap      \* the buffers allocated and released, the vectors alive (SpecOwn)

vars == <<a, asserts, status, last, before, b, appends, heap>>

Max(x, y) == IF x >= y THEN x ELSE y
Min(S) == CHOOSE x \in S : \A y \in S : x <= y

---------------------------------------------------------------------------
\* ArrayPtr<Type> (array_ptr.h)

\* Possible contents of n slots nobody initialised (new Type[n]).
RawSlots(n) == [1..n -> Values]

\* The address ArrayPtr(n) holds: nullptr for n = 0, else a block that is not in use.
AllocPtr(n, used) == IF n = 0 THEN NullPtr ELSE Min(Addresses \ used)

\* n slots all holding value (std::fill).
Filled(n, value) == [i \in 1..n |-> value]

\* ArrayPtr(n) allocated the block at p; nothing is allocated for nullptr.
HeapAlloc(h, p) == IF p = NullPtr THEN h ELSE [h EXCEPT !.live = @ \cup {p}]

\* delete (or ~ArrayPtr) on p: nothing for nullptr; the block is released, and
\* releasing a block that is not allocated is recorded in twice.
HeapRelease(h, p) ==
    IF p = NullPtr THEN h
    ELSE IF p \in h.live
    THEN [h EXCEPT !.live = @ \ {p}, !.released = @ \cup {p}]
    ELSE [h EXCEPT !.twice = TRUE]

---------------------------------------------------------------------------
\* SimpleVector: constructors

Vector(capacity, size, array, ptr) ==
    [capacity |-> capacity, size |-> size, array |-> array, ptr |-> ptr]

\* SimpleVector() noexcept = default
DefaultVector == Vector(0, 0, <<>>, NullPtr)

\* explicit SimpleVector(size_t size)
SizedVector(size, used) ==
    Vector(size, size, Filled(size, DefaultValue), AllocPtr(size, used))

\* SimpleVector(size_t size, const Type& value)
FilledVector(size, value, used) ==
    Vector(size, size, Filled(size, value), AllocPtr(size, used))

\* explicit SimpleVector(ReserveProxyObj capacity): the slots stay raw
ReservedVectors(n, used) ==
    {Vector(n, 0, raw, AllocPtr(n, used)) : raw \in RawSlots(n)}

\* SimpleVector(std::initializer_list<Type> init)
InitListVector(init, used) ==
    Vector(Len(init), Len(init), init, AllocPtr(Len(init), used))

---------------------------------------------------------------------------
\* SimpleVector: observers

GetSize(v) == v.size
GetCapacity(v) == v.capacity
IsEmpty(v) == v.size = 0

begin(v) == [buf |-> v.ptr, off |-> 0]
end(v) == [buf |-> v.ptr, off |-> v.size]

\* Slot i (0-based) of the buffer exists.
InBuffer(v, i) == 0 <= i /\ i < Len(v.array)

\* What reading outside the buffer yields is not a value of Type.
OutOfBuffer == -1

\* The element at index i as a read through begin() + i sees it.
Elem(v, i) == IF InBuffer(v, i) THEN v.array[i + 1] ELSE OutOfBuffer

\* The live sequence: the elements at [begin(), end()).
Live(v) == [i \in 1..v.size |-> Elem(v, i - 1)]

\* Outcome of a member function: the vector after it, whether it executed
\* undefined behaviour, and the iterator or reference it returned.
NoIter == [buf |-> -1, off |-> -1]
Ok(v, ret) == [v |-> v, ub |-> FALSE, ret |-> ret]

\* After undefined behaviour the fields hold what the code assigned and the
\* buffer holds anything.
Undefined(v, ret) ==
    {[v |-> [v EXCEPT !.array = arr], ub |-> TRUE, ret |-> ret] :
        arr \in RawSlots(Len(v.array))}

---------------------------------------------------------------------------
\* SimpleVector: member functions.  Each yields the set of its outcomes.

\* A Resize that grows to the size asked for and no further, which the code
\* does not do.
Resize_ToNewSizeOnly(v, new_size, used) ==
    IF new_size <= v.size \/ new_size < v.capacity
    THEN {Ok([v EXCEPT !.size = new_size], NoIter)}
    ELSE {Ok(Vector(new_size, new_size,
                    [i \in 1..new_size |-> IF i <= v.size THEN Elem(v, i - 1)
                                           ELSE DefaultValue],
                    AllocPtr(new_size, used \cup {v.ptr})), NoIter)}

\* void Resize(size_t new_size)
Resize(v, new_size, used) ==
    IF new_size <= v.size
    THEN {Ok([v EXCEPT !.size = new_size], NoIter)}
    ELSE IF new_size < v.capacity
    THEN {Ok([v EXCEPT !.size = new_size], NoIter)}
    ELSE LET new_capacity == Max(new_size, v.capacity * 2)
             p == AllocPtr(new_capacity, used \cup {v.ptr})
             new_items(tail) == [i \in 1..new_capacity |->
                 IF i <= v.size THEN v.array[i]
                 ELSE IF i <= new_size THEN DefaultValue
                 ELSE tail[i - new_size]]
         IN  IF v.size > Len(v.array)
             THEN \* std::move(begin(), end(), ...) reads past the old buffer
                  Undefined(Vector(new_capacity, new_size,
                                   Filled(new_capacity, DefaultValue), p), NoIter)
             ELSE {Ok(Vector(new_capacity, new_size, new_items(tail), p), NoIter) :
                      tail \in RawSlots(new_capacity - new_size)}

\* void Reserve(const ReserveProxyObj& obj)
Reserve(v, obj_size, used) ==
    IF obj_size < v.capacity
    THEN {Ok(v, NoIter)}
    ELSE LET tmp == SizedVector(obj_size, used \cup {v.ptr})
             moved == [i \in 1..obj_size |->
                 IF i <= v.size THEN v.array[i] ELSE tmp.array[i]]
             old_size == v.size
         IN  IF v.size > Len(v.array) \/ v.size > obj_size
             THEN \* std::move reads past the old buffer or writes past tmp's
                  Undefined(Vector(tmp.capacity, old_size, tmp.array, tmp.ptr), NoIter)
             ELSE {Ok(Vector(tmp.capacity, old_size, moved, tmp.ptr), NoIter)}

\* assert(pos >= begin() && pos < end()) of Insert and Erase
PosAsserted(v, pos) == pos.off >= begin(v).off /\ pos.off < end(v).off

\* Iterator Insert(ConstIterator pos, const Type& value)
InsertCopy(v, pos, value, used) ==
    UNION {
        IF r.ub THEN {[r EXCEPT !.v.size = @ + 1, !.ret = pos]}
        ELSE LET w == r.v
                 iter == pos
                 \* move_backward(iter, end(), end() + 1) and *iter = value touch
                 \* iter .. end() of the buffer iter points into
                 shifted == [i \in 1..Len(w.array) |->
                     IF i - 1 < iter.off THEN w.array[i]
                     ELSE IF i - 1 = iter.off THEN value
                     ELSE IF i - 1 <= w.size THEN w.array[i - 1]
                     ELSE w.array[i]]
                 x == [w EXCEPT !.size = w.size + 1]
             IN  IF iter.buf = w.ptr /\ InBuffer(w, w.size)
                 THEN {Ok([x EXCEPT !.array = shifted], iter)}
                 ELSE Undefined(x, iter)
        : r \in Resize(v, v.size + 1, used)}

\* Iterator Insert(Iterator pos, Type&& value)
InsertMove(v, pos, value, used) ==
    LET dist == pos.off - begin(v).off
    IN  UNION {
        LET w == r.v
            ret == [buf |-> w.ptr, off |-> dist]
            \* move_backward(begin() + dist, end() - 1, end()) and the write to
            \* begin() + dist touch dist .. end() - 1
            shifted == [i \in 1..Len(w.array) |->
                IF i - 1 < dist THEN w.array[i]
                ELSE IF i - 1 = dist THEN value
                ELSE IF i - 1 < w.size THEN w.array[i - 1]
                ELSE w.array[i]]
        IN  IF r.ub THEN {[r EXCEPT !.ret = ret]}
            ELSE IF w.size <= Len(w.array)
            THEN {Ok([w EXCEPT !.array = shifted], ret)}
            ELSE Undefined(w, ret)
        : r \in Resize(v, v.size + 1, used)}

\* void PushBack(const Type& item)
PushBackCopy(v, item, used) ==
    {[r EXCEPT !.ret = NoIter] : r \in InsertCopy(v, end(v), item, used)}

\* void PushBack(Type&& item)
PushBackMove(v, item, used) ==
    {[r EXCEPT !.ret = NoIter] : r \in InsertMove(v, end(v), item, used)}

\* void PopBack() noexcept
PopBack(v) == IF v.size = 0 THEN v ELSE [v EXCEPT !.size = v.size - 1]

\* Iterator Erase(ConstIterator pos)
Erase(v, pos) ==
    LET n == pos.off - begin(v).off
        moved == [i \in 1..Len(v.array) |->
            IF i - 1 >= n /\ i - 1 < v.size - 1 THEN v.array[i + 1] ELSE v.array[i]]
        w == [v EXCEPT !.size = v.size - 1]
        ret == [buf |-> v.ptr, off |-> n]
    IN  IF n + 1 < v.size /\ v.size > Len(v.array)
        THEN \* std::move(begin() + n + 1, end(), begin() + n) leaves the buffer
             Undefined(w, ret)
        ELSE {Ok([w EXCEPT !.array = moved], ret)}

\* void swap(SimpleVector& other) noexcept: <<this, other>> afterwards
swap(v, other) == <<other, v>>

\* A Clear that gives the buffer up as well, which the code does not do.
Clear_ReleasingBuffer(v) == DefaultVector

\* void Clear() noexcept
Clear(v) == [v EXCEPT !.size = 0]

\* Type& operator[](size_t index) noexcept
Subscript(v, index) == [buf |-> v.ptr, off |-> index]

\* At with its bound check made against the capacity instead of the size.
At_CheckedAgainstCapacity(v, index) ==
    IF index < v.capacity
    THEN [thrown |-> FALSE, ref |-> [buf |-> v.ptr, off |-> index]]
    ELSE [thrown |-> TRUE, ref |-> NoIter]

\* Type& At(size_t index): the reference, or std::out_of_range thrown
At(v, index) ==
    IF index < v.size
    THEN [thrown |-> FALSE, ref |-> [buf |-> v.ptr, off |-> index]]
    ELSE [thrown |-> TRUE, ref |-> NoIter]

\* SimpleVector(const SimpleVector& other)
CopyVector(other, used) ==
    LET n == other.size
        copied == [i \in 1..n |-> Elem(other, i - 1)]
        w == Vector(n, n, Filled(n, DefaultValue), AllocPtr(n, used))
    IN  IF other.size > Len(other.array)
        THEN Undefined(w, NoIter)
        ELSE {Ok([w EXCEPT !.array = copied], NoIter)}

\* A move constructor that copies the members and leaves other as it was.
MoveVector_Sharing(other) == <<other, other>>

\* SimpleVector(SimpleVector&& other): <<this, other>> afterwards
MoveVector(other) == swap(DefaultVector, other)

\* SimpleVector& operator=(const SimpleVector& rhs)
CopyAssign(v, rhs, used) ==
    LET tmp == SizedVector(rhs.size, used \cup {v.ptr, rhs.ptr})
        copied == [i \in 1..rhs.size |-> Elem(rhs, i - 1)]
        swapped == swap(v, [tmp EXCEPT !.array = copied])[1]
        w == [swapped EXCEPT !.capacity = rhs.capacity, !.size = rhs.size]
    IN  IF rhs.size > Len(rhs.array)
        THEN Undefined([w EXCEPT !.array = tmp.array], NoIter)
        ELSE {Ok(w, NoIter)}

\* operator= when building tmp throws: at = 0 when the allocation of tmp's
\* buffer does (std::bad_alloc), at = i + 1 when the copy of rhs's element i
\* into tmp does.  The swap of line 64 was not reached and the unwinding
\* destroys tmp: <<this, rhs>> afterwards.
CopyAssignThrows_InPlace(v, rhs, at) == <<DefaultVector, rhs>>

CopyAssignThrows(v, rhs, at) == <<v, rhs>>

\* The store through the reference operator[] returned: it changes the slot of
\* the buffer the reference points into, for every vector that holds that buffer.
StoreThrough(v, ref, value) ==
    IF ref.buf # NullPtr /\ v.ptr = ref.buf /\ InBuffer(v, ref.off)
    THEN [v EXCEPT !.array[ref.off + 1] = value]
    ELSE v

\* std::equal(first1, last1, first2, last2) on random access iterators
Equal(s, t) == Len(s) = Len(t) /\ \A i \in 1..Len(s) : s[i] = t[i]

\* std::lexicographical_compare(first1, last1, first2, last2), from index i on
RECURSIVE LexicographicalCompare(_, _, _)
LexicographicalCompare(s, t, i) ==
    IF i > Len(s) \/ i > Len(t) THEN i > Len(s) /\ i <= Len(t)
    ELSE IF s[i] < t[i] THEN TRUE
    ELSE IF t[i] < s[i] THEN FALSE
    ELSE LexicographicalCompare(s, t, i + 1)

\* operator==, !=, <, <=, >, >= (lhs, rhs)
OpEq(lhs, rhs) == Equal(Live(lhs), Live(rhs))
OpNe(lhs, rhs) == ~OpEq(lhs, rhs)
OpLt(lhs, rhs) == LexicographicalCompare(Live(lhs), Live(rhs), 1)
OpLe(lhs, rhs) == OpEq(lhs, rhs) \/ OpLt(lhs, rhs)
OpGt(lhs, rhs) == ~OpLe(lhs, rhs)
OpGe(lhs, rhs) == ~OpLt(lhs, rhs)

\* The six results of comparing lhs with rhs.
Compared(lhs, rhs) ==
    [eq |-> OpEq(lhs, rhs), ne |-> OpNe(lhs, rhs), lt |-> OpLt(lhs, rhs),
     le |-> OpLe(lhs, rhs), gt |-> OpGt(lhs, rhs), ge |-> OpGe(lhs, rhs)]

\* The comparisons read both vectors index by index up to the first difference
\* or the shorter size: they leave a buffer when the slots both really have are
\* equal and fewer than that size.
ReadsPastBuffer(lhs, rhs) ==
    LET slots == Min({Len(lhs.array), Len(rhs.array)})
    IN  /\ Min({lhs.size, rhs.size}) > slots
        /\ \A i \in 1..slots : lhs.array[i] = rhs.array[i]

\* Whatever six results a comparison that read past a buffer may give.
ComparedAnyhow == [{"eq", "ne", "lt", "le", "gt", "ge"} -> BOOLEAN]

\* ~SimpleVector(): the pointer handed to delete by delete array.Release()
Destructor(v) == v.ptr

\* Reserve(obj) takes its branch that allocates tmp.
ReserveAllocates(v, obj_size) == ~(obj_size < v.capacity)

---------------------------------------------------------------------------
\* The program: a sequence of calls on the vector under test.

\* The record of a call: k is its index or size argument and value its element
\* argument (0 when it has none), asserted the value of its assert() condition.
Call(op, k, value, asserted, ret, thrown) ==
    [op |-> op, k |-> k, value |-> value, asserted |-> asserted,
     ret |-> ret, thrown |-> thrown, undoes |-> FALSE]

\* Nothing allocated, no vector constructed yet.
NoHeap == [live |-> {}, released |-> {}, twice |-> FALSE, alive |-> {}]

\* No PushBack call counted yet.
NoAppends == [calls |-> 0, allocs |-> 0]

Init ==
    /\ a = DefaultVector
    /\ asserts \in BOOLEAN
    /\ status = "running"
    /\ last = Call("SimpleVector()", 0, 0, TRUE, NoIter, FALSE)
    /\ before = <<>>
    /\ b = DefaultVector
    /\ appends = NoAppends
    /\ heap = NoHeap

\* The vectors the constructors build at an address not in use.
Constructed(used) ==
    {DefaultVector}
    \cup {SizedVector(n, used) : n \in 0..MaxCtor}
    \cup {FilledVector(n, value, used) : n \in 0..MaxCtor, value \in Values}
    \cup UNION {ReservedVectors(n, used) : n \in 0..MaxCtor}
    \cup UNION {{InitListVector(init, used) : init \in [1..n -> Values]} : n \in 0..MaxCtor}

\* The second vector of a call that takes one: a constructed vector, as it is
\* or after a PopBack.
Operands(used) ==
    Constructed(used) \cup {PopBack(v) : v \in Constructed(used)}

\* The capacity Resize(new_size) leaves: the bound of the model is on it.
ResizedCapacity(v, new_size) ==
    IF new_size <= v.size \/ new_size < v.capacity
    THEN v.capacity
    ELSE Max(new_size, v.capacity * 2)

\* The effect of a call with outcome out on the vector it is called on.
Returned(out, call) ==
    /\ a' = out.v
    /\ status' = IF out.ub THEN "ub" ELSE "running"
    /\ last' = call
    /\ UNCHANGED asserts

\* A failed assert() in a build that has them: the program is aborted.
Aborted(call) ==
    /\ status' = "assert_abort"
    /\ last' = call
    /\ UNCHANGED <<a, asserts>>

\* A call with outcome out, in a program of one vector.
Returns(out, call) == Returned(out, call) /\ UNCHANGED <<b, appends, heap>>

\* A failed assert(), in a program of one vector.
Aborts(call) == Aborted(call) /\ UNCHANGED <<b, appends, heap>>

\* The vector under test is from now on a newly constructed one.
CtorDefault ==
    /\ status = "running"
    /\ Returns(Ok(DefaultVector, NoIter),
               Call("SimpleVector()", 0, 0, TRUE, NoIter, FALSE))
    /\ before' = <<>>

CtorSize ==
    /\ status = "running"
    /\ \E n \in 0..MaxCtor :
        Returns(Ok(SizedVector(n, {a.ptr}), NoIter),
                Call("SimpleVector(size)", n, 0, TRUE, NoIter, FALSE))
    /\ before' = <<>>

CtorFill ==
    /\ status = "running"
    /\ \E n \in 0..MaxCtor, value \in Values :
        Returns(Ok(FilledVector(n, value, {a.ptr}), NoIter),
                Call("SimpleVector(size, value)", n, value, TRUE, NoIter, FALSE))
    /\ before' = <<>>

CtorReserve ==
    /\ status = "running"
    /\ \E n \in 0..MaxCtor : \E w \in ReservedVectors(n, {a.ptr}) :
        Returns(Ok(w, NoIter), Call("SimpleVector(Reserve)", n, 0, TRUE, NoIter, FALSE))
    /\ before' = <<>>

CtorInitList ==
    /\ status = "running"
    /\ \E n \in 0..MaxCtor : \E init \in [1..n -> Values] :
        Returns(Ok(InitListVector(init, {a.ptr}), NoIter),
                Call("SimpleVector(init)", n, 0, TRUE, NoIter, FALSE))
    /\ before' = <<>>

\* SimpleVector c(a); the vector under test is c from now on
CtorCopy ==
    /\ status = "running"
    /\ \E out \in CopyVector(a, {a.ptr}) :
        Returns(out, Call("SimpleVector(const&)", 0, 0, TRUE, NoIter, FALSE))
    /\ before' = <<>>

\* SimpleVector c(std::move(a)); the vector under test is c or the moved-from a
CtorMove ==
    /\ status = "running"
    /\ \E i \in {1, 2} :
        Returns(Ok(MoveVector(a)[i], NoIter),
                Call("SimpleVector(&&)", i, 0, TRUE, NoIter, FALSE))
    /\ before' = <<>>

\* a = rhs
AssignCopy ==
    /\ status = "running"
    /\ \E rhs \in Operands({a.ptr}) : \E out \in CopyAssign(a, rhs, {a.ptr, rhs.ptr}) :
        Returns(out, Call("operator=", rhs.capacity, 0, TRUE, NoIter, FALSE))
    /\ before' = <<>>

\* a.swap(other)
SwapCall ==
    /\ status = "running"
    /\ \E other \in Operands({a.ptr}) :
        Returns(Ok(swap(a, other)[1], NoIter),
                Call("swap", 0, 0, TRUE, NoIter, FALSE))
    /\ before' = <<>>

ReserveCall ==
    /\ status = "running"
    /\ \E c \in 0..MaxCap : \E out \in Reserve(a, c, {a.ptr}) :
        Returns(out, Call("Reserve", c, 0, TRUE, NoIter, FALSE))
    /\ before' = <<>>

ResizeCall ==
    /\ status = "running"
    /\ \E n \in 0..MaxCap :
        /\ ResizedCapacity(a, n) <= MaxCap
        /\ \E out \in Resize(a, n, {a.ptr}) :
            Returns(out, Call("Resize", n, 0, TRUE, NoIter, FALSE))
    /\ before' = <<>>

\* a.PushBack(item) with item an lvalue
PushBackCopyCall ==
    /\ status = "running"
    /\ ResizedCapacity(a, a.size + 1) <= MaxCap
    /\ \E item \in Values :
        LET call == Call("PushBack(const&)", a.size, item, PosAsserted(a, end(a)),
                         NoIter, FALSE)
        IN  IF asserts /\ ~PosAsserted(a, end(a))
            THEN Aborts(call)
            ELSE \E out \in PushBackCopy(a, item, {a.ptr}) : Returns(out, call)
    /\ before' = Live(a)

\* a.PushBack(std::move(item))
PushBackMoveCall ==
    /\ status = "running"
    /\ ResizedCapacity(a, a.size + 1) <= MaxCap
    /\ \E item \in Values :
        LET call == Call("PushBack(&&)", a.size, item, PosAsserted(a, end(a)),
                         NoIter, FALSE)
        IN  IF asserts /\ ~PosAsserted(a, end(a))
            THEN Aborts(call)
            ELSE \E out \in PushBackMove(a, item, {a.ptr}) : Returns(out, call)
    /\ before' = Live(a)

\* a.Insert(a.begin() + k, value) with value an lvalue, 0 <= k <= size
InsertCopyCall ==
    /\ status = "running"
    /\ ResizedCapacity(a, a.size + 1) <= MaxCap
    /\ \E k \in 0..a.size, value \in Values :
        LET pos == [buf |-> a.ptr, off |-> k]
            asserted == PosAsserted(a, pos)
        IN  IF asserts /\ ~asserted
            THEN Aborts(Call("Insert(const&)", k, value, asserted, NoIter, FALSE))
            ELSE \E out \in InsertCopy(a, pos, value, {a.ptr}) :
                    Returns(out, Call("Insert(const&)", k, value, asserted,
                                      out.ret, FALSE))
    /\ before' = Live(a)

\* a.Insert(a.begin() + k, std::move(value)), 0 <= k <= size
InsertMoveCall ==
    /\ status = "running"
    /\ ResizedCapacity(a, a.size + 1) <= MaxCap
    /\ \E k \in 0..a.size, value \in Values :
        LET pos == [buf |-> a.ptr, off |-> k]
            asserted == PosAsserted(a, pos)
        IN  IF asserts /\ ~asserted
            THEN Aborts(Call("Insert(&&)", k, value, asserted, NoIter, FALSE))
            ELSE \E out \in InsertMove(a, pos, value, {a.ptr}) :
                    Returns(out, Call("Insert(&&)", k, value, asserted,
                                      out.ret, FALSE))
    /\ before' = Live(a)

PopBackCall ==
    /\ status = "running"
    /\ Returns(Ok(PopBack(a), NoIter), Call("PopBack", 0, 0, TRUE, NoIter, FALSE))
    /\ before' = <<>>

\* a.Erase(a.begin() + k), 0 <= k < size; `undoes` when the position is the
\* iterator the Insert just before returned
EraseCall ==
    /\ status = "running"
    /\ \E k \in 0..(a.size - 1) :
        LET pos == [buf |-> a.ptr, off |-> k]
            undoes == last.op \in {"Insert(const&)", "Insert(&&)"} /\ last.ret = pos
        IN  /\ before' = IF undoes THEN before ELSE <<>>
            /\ \E out \in Erase(a, pos) :
                 Returns(out, [Call("Erase", k, 0, PosAsserted(a, pos), out.ret, FALSE)
                                  EXCEPT !.undoes = undoes])

ClearCall ==
    /\ status = "running"
    /\ Returns(Ok(Clear(a), NoIter), Call("Clear", 0, 0, TRUE, NoIter, FALSE))
    /\ before' = <<>>

\* a.At(index), any index up to one past the capacity
AtCall ==
    /\ status = "running"
    /\ \E index \in 0..(MaxCap + 1) :
        Returns(Ok(a, At(a, index).ref),
                Call("At", index, 0, TRUE, At(a, index).ref, At(a, index).thrown))
    /\ before' = <<>>

Next ==
    \/ CtorDefault \/ CtorSize \/ CtorFill \/ CtorReserve \/ CtorInitList
    \/ CtorCopy \/ CtorMove \/ AssignCopy \/ SwapCall
    \/ ReserveCall \/ ResizeCall
    \/ PushBackCopyCall \/ PushBackMoveCall \/ InsertCopyCall \/ InsertMoveCall
    \/ PopBackCall \/ EraseCall \/ ClearCall \/ AtCall

Spec == Init /\ [][Next]_vars

---------------------------------------------------------------------------
\* A program that default-constructs a vector and only calls PushBack on it.

\* Resize(new_size) takes its branch that allocates a new buffer.
Reallocates(v, new_size) == ~(new_size <= v.size) /\ ~(new_size < v.capacity)

\* One more PushBack call has returned; it allocated when its Resize did.
Appended ==
    appends' = [calls |-> appends.calls + 1,
                allocs |-> appends.allocs
                           + IF Reallocates(a, a.size + 1) THEN 1 ELSE 0]

AppendInit == Init

\* a.PushBack(item) with item an lvalue.  The run is followed while its
\* behaviour is defined: with a reallocation this overload writes through the
\* iterator its Resize invalidated, and the run ends there.
AppendCopy ==
    /\ status = "running"
    /\ appends.calls < MaxAppends
    /\ ~Reallocates(a, a.size + 1)
    /\ \E item \in Values :
        LET call == Call("PushBack(const&)", a.size, item, PosAsserted(a, end(a)),
                         NoIter, FALSE)
        IN  IF asserts /\ ~PosAsserted(a, end(a))
            THEN Aborted(call) /\ UNCHANGED appends
            ELSE /\ \E out \in PushBackCopy(a, item, {a.ptr}) : Returned(out, call)
                 /\ Appended
    /\ before' = Live(a)
    /\ UNCHANGED <<b, heap>>

\* a.PushBack(std::move(item))
AppendMove ==
    /\ status = "running"
    /\ appends.calls < MaxAppends
    /\ \E item \in Values :
        LET call == Call("PushBack(&&)", a.size, item, PosAsserted(a, end(a)),
                         NoIter, FALSE)
        IN  IF asserts /\ ~PosAsserted(a, end(a))
            THEN Aborted(call) /\ UNCHANGED appends
            ELSE /\ \E out \in PushBackMove(a, item, {a.ptr}) : Returned(out, call)
                 /\ Appended
    /\ before' = Live(a)
    /\ UNCHANGED <<b, heap>>

AppendNext == AppendCopy \/ AppendMove

SpecAppend == AppendInit /\ [][AppendNext]_vars

---------------------------------------------------------------------------
\* A program of two vectors a and b, in a build without assert.

\* The record of a call on the two: at is where it threw (see CopyAssignThrows),
\* cmp the results of a comparison.
PairCall(op, thrown, at, cmp) == [op |-> op, thrown |-> thrown, at |-> at, cmp |-> cmp]

NotCompared == Compared(DefaultVector, DefaultVector)

PairInit == Init /\ asserts = FALSE

\* A call on the two vectors that leaves them as out.
PairReturns(va, vb, ub, call) ==
    /\ a' = va
    /\ b' = vb
    /\ status' = IF ub THEN "ub" ELSE "running"
    /\ last' = call
    /\ UNCHANGED <<asserts, before, appends, heap>>

\* a is from now on a newly constructed vector
PairCtor ==
    /\ status = "running"
    /\ \E w \in Constructed({a.ptr, b.ptr}) :
        /\ w.capacity <= MaxPair
        /\ PairReturns(w, b, FALSE, PairCall("SimpleVector", FALSE, 0, NotCompared))

\* a.swap(b)
PairSwap ==
    /\ status = "running"
    /\ PairReturns(swap(a, b)[1], swap(a, b)[2], FALSE,
                   PairCall("swap", FALSE, 0, NotCompared))

\* a.PopBack()
PairPopBack ==
    /\ status = "running"
    /\ PairReturns(PopBack(a), b, FALSE, PairCall("PopBack", FALSE, 0, NotCompared))

\* a.Resize(n)
PairResize ==
    /\ status = "running"
    /\ \E n \in 0..MaxPair :
        /\ ResizedCapacity(a, n) <= MaxPair
        /\ \E out \in Resize(a, n, {a.ptr, b.ptr}) :
             PairReturns(out.v, b, out.ub, PairCall("Resize", FALSE, 0, NotCompared))

\* a[i] = value, i < size
PairStore ==
    /\ status = "running"
    /\ \E i \in 0..(a.size - 1), value \in Values :
        LET ref == Subscript(a, i)
            call == PairCall("operator[]", FALSE, 0, NotCompared)
        IN  IF InBuffer(a, i)
            THEN PairReturns(StoreThrough(a, ref, value), StoreThrough(b, ref, value),
                             FALSE, call)
            ELSE \E out \in Undefined(a, NoIter) : PairReturns(out.v, b, TRUE, call)

\* SimpleVector c(a); b is c from now on
PairCopyCtor ==
    /\ status = "running"
    /\ \E out \in CopyVector(a, {a.ptr, b.ptr}) :
        PairReturns(a, out.v, out.ub,
                    PairCall("SimpleVector(const&)", FALSE, 0, NotCompared))

\* SimpleVector c(std::move(a)); b is c from now on
PairMoveCtor ==
    /\ status = "running"
    /\ PairReturns(MoveVector(a)[2], MoveVector(a)[1], FALSE,
                   PairCall("SimpleVector(&&)", FALSE, 0, NotCompared))

\* a = b
PairAssign ==
    /\ status = "running"
    /\ \E out \in CopyAssign(a, b, {a.ptr, b.ptr}) :
        PairReturns(out.v, b, out.ub, PairCall("operator=", FALSE, 0, NotCompared))

\* a = b, and building the temporary throws: the allocation, or the copy of an
\* element that the copies before it reached without leaving b's buffer
PairAssignThrows ==
    /\ status = "running"
    /\ \E at \in 0..b.size :
        /\ at <= Len(b.array)
        /\ PairReturns(CopyAssignThrows(a, b, at)[1], CopyAssignThrows(a, b, at)[2],
                       FALSE, PairCall("operator=", TRUE, at, NotCompared))

\* b = std::move(a): the class declares no operator=(SimpleVector&&), and the
\* rvalue binds to operator=(const SimpleVector&)
PairMoveAssign ==
    /\ status = "running"
    /\ \E out \in CopyAssign(b, a, {a.ptr, b.ptr}) :
        PairReturns(a, out.v, out.ub,
                    PairCall("operator=(std::move)", FALSE, 0, NotCompared))

\* a == b, a != b, a < b, a <= b, a > b, a >= b
PairCompare ==
    /\ status = "running"
    /\ IF ~ReadsPastBuffer(a, b)
       THEN PairReturns(a, b, FALSE, PairCall("compare", FALSE, 0, Compared(a, b)))
       ELSE \E cmp \in ComparedAnyhow :
               PairReturns(a, b, TRUE, PairCall("compare", FALSE, 0, cmp))

PairNext ==
    \/ PairCtor \/ PairSwap \/ PairPopBack \/ PairResize \/ PairStore
    \/ PairCopyCtor \/ PairMoveCtor \/ PairAssign \/ PairAssignThrows
    \/ PairMoveAssign \/ PairCompare

SpecPair == PairInit /\ [][PairNext]_vars

---------------------------------------------------------------------------
\* A program that constructs, copies, moves, swaps, grows and destroys two
\* vectors a and b, and the buffers it allocates and releases.  heap.alive
\* holds the names of the vectors constructed and not destroyed.

OwnInit == PairInit

OwnReturns(va, vb, ub, h, op) ==
    /\ a' = va
    /\ b' = vb
    /\ status' = IF ub THEN "ub" ELSE "running"
    /\ heap' = h
    /\ last' = PairCall(op, FALSE, 0, NotCompared)
    /\ UNCHANGED <<asserts, before, appends>>

\* a buffer that took the place of old, which a temporary released on its way out
Replaced(h, new, old) == HeapRelease(HeapAlloc(h, new), old)

\* SimpleVector a(...) or SimpleVector b(...)
OwnCtor ==
    /\ status = "running"
    /\ \E x \in {"a", "b"} \ heap.alive : \E w \in Constructed(heap.live) :
        /\ w.capacity <= MaxPair
        /\ OwnReturns(IF x = "a" THEN w ELSE a, IF x = "b" THEN w ELSE b, FALSE,
                      [HeapAlloc(heap, w.ptr) EXCEPT !.alive = @ \cup {x}],
                      "SimpleVector")

\* SimpleVector b(a)
OwnCopyCtor ==
    /\ status = "running"
    /\ "a" \in heap.alive /\ "b" \notin heap.alive
    /\ \E out \in CopyVector(a, heap.live) :
        OwnReturns(a, out.v, out.ub,
                   [HeapAlloc(heap, out.v.ptr) EXCEPT !.alive = @ \cup {"b"}],
                   "SimpleVector(const&)")

\* SimpleVector b(std::move(a))
OwnMoveCtor ==
    /\ status = "running"
    /\ "a" \in heap.alive /\ "b" \notin heap.alive
    /\ OwnReturns(MoveVector(a)[2], MoveVector(a)[1], FALSE,
                  [heap EXCEPT !.alive = @ \cup {"b"}], "SimpleVector(&&)")

\* a = b: tmp allocates, takes a's buffer in the swap and is destroyed
OwnAssign ==
    /\ status = "running"
    /\ heap.alive = {"a", "b"}
    /\ \E out \in CopyAssign(a, b, heap.live) :
        OwnReturns(out.v, b, out.ub, Replaced(heap, out.v.ptr, Destructor(a)),
                   "operator=")

\* a.swap(b)
OwnSwap ==
    /\ status = "running"
    /\ heap.alive = {"a", "b"}
    /\ OwnReturns(swap(a, b)[1], swap(a, b)[2], FALSE, heap, "swap")

\* a.Reserve(n): tmp allocates, takes a's buffer in the swap and is destroyed
OwnReserve ==
    /\ status = "running"
    /\ "a" \in heap.alive
    /\ \E n \in 0..MaxPair : \E out \in Reserve(a, n, heap.live) :
        OwnReturns(out.v, b, out.ub,
                   IF ReserveAllocates(a, n)
                   THEN Replaced(heap, out.v.ptr, Destructor(a)) ELSE heap,
                   "Reserve")

\* a.Resize(n): new_items allocates, takes a's buffer in the swap and goes out
\* of scope
OwnResize ==
    /\ status = "running"
    /\ "a" \in heap.alive
    /\ \E n \in 0..MaxPair :
        /\ ResizedCapacity(a, n) <= MaxPair
        /\ \E out \in Resize(a, n, heap.live) :
             OwnReturns(out.v, b, out.ub,
                        IF Reallocates(a, n)
                        THEN Replaced(heap, out.v.ptr, a.ptr) ELSE heap,
                        "Resize")

\* a or b goes out of scope; its name stands for no vector until the next
\* construction
OwnDestroy ==
    /\ status = "running"
    /\ \E x \in heap.alive :
        LET v == IF x = "a" THEN a ELSE b
        IN  OwnReturns(IF x = "a" THEN DefaultVector ELSE a,
                       IF x = "b" THEN DefaultVector ELSE b, FALSE,
                       [HeapRelease(heap, Destructor(v)) EXCEPT !.alive = @ \ {x}],
                       "~SimpleVector")

OwnNext ==
    \/ OwnCtor \/ OwnCopyCtor \/ OwnMoveCtor \/ OwnAssign \/ OwnSwap
    \/ OwnReserve \/ OwnResize \/ OwnDestroy

SpecOwn == OwnInit /\ [][OwnNext]_vars

---------------------------------------------------------------------------
\* A program that makes the same Insert and PushBack calls on two vectors that
\* start equal: on a with an lvalue argument, on b with an rvalue, in a build
\* without assert.

TwinInit == PairInit

TwinReturns(outa, outb, op) ==
    PairReturns(outa.v, outb.v, outa.ub \/ outb.ub,
                PairCall(op, FALSE, 0, NotCompared))

\* SimpleVector a(...), b(...) with the same arguments, then a.Resize(n) and
\* b.Resize(n) for some n <= size; once, before the first Insert
TwinCtor ==
    /\ status = "running"
    /\ last.op = "SimpleVector()"
    /\ \E w \in Constructed({}) : \E n \in 0..w.size :
        \E outa \in Resize(w, n, {}) :
            LET wb == [w EXCEPT !.ptr = AllocPtr(w.capacity, {w.ptr})]
            IN  \E outb \in Resize(wb, n, {w.ptr}) :
                    TwinReturns(outa, outb, "SimpleVector")

\* a.Insert(a.begin() + k, value) and b.Insert(b.begin() + k, std::move(value))
TwinInsert ==
    /\ status = "running"
    /\ ResizedCapacity(a, a.size + 1) <= MaxCap
    /\ ResizedCapacity(b, b.size + 1) <= MaxCap
    /\ \E k \in 0..Min({a.size, b.size}), value \in Values :
        \E outa \in InsertCopy(a, [buf |-> a.ptr, off |-> k], value, {b.ptr}) :
        \E outb \in InsertMove(b, [buf |-> b.ptr, off |-> k], value, {outa.v.ptr}) :
            TwinReturns(outa, outb, "Insert")

\* a.PushBack(item) and b.PushBack(std::move(item))
TwinPushBack ==
    /\ status = "running"
    /\ ResizedCapacity(a, a.size + 1) <= MaxCap
    /\ ResizedCapacity(b, b.size + 1) <= MaxCap
    /\ \E item \in Values :
        \E outa \in PushBackCopy(a, item, {b.ptr}) :
        \E outb \in PushBackMove(b, item, {outa.v.ptr}) :
            TwinReturns(outa, outb, "PushBack")

TwinNext == TwinCtor \/ TwinInsert \/ TwinPushBack

SpecTwin == TwinInit /\ [][TwinNext]_vars

---------------------------------------------------------------------------
\* Properties

InsertOps == {"Insert(const&)", "Insert(&&)"}
PushBackOps == {"PushBack(const&)", "PushBack(&&)"}

\* s with v put in front of its element at 0-based index k
InsertedAt(s, k, v) == SubSeq(s, 1, k) \o <<v>> \o SubSeq(s, k + 1, Len(s))

\* s without its element at 0-based index k
RemovedAt(s, k) == SubSeq(s, 1, k) \o SubSeq(s, k + 2, Len(s))

\* C1: after any sequence of public operations, GetSize() <= GetCapacity().
C1_SizeWithinCapacity == GetSize(a) <= GetCapacity(a)

\* C2: the capacity field equals the number of slots of the owned buffer, and
\* is 0 exactly when the vector owns no buffer.
C2_CapacityIsBufferLength ==
    /\ a.capacity = Len(a.array)
    /\ a.capacity = 0 <=> a.ptr = NullPtr

\* C3: Insert(begin() + k, v), in both overloads, and PushBack(v) as k = size,
\* leave the live sequence s[0..k), v, s[k..size): size grows by exactly 1.
C3_InsertPutsValueAtPosition ==
    [][(last'.op \in InsertOps \cup PushBackOps /\ status' # "assert_abort")
        => /\ a'.size = a.size + 1
           /\ Live(a') = InsertedAt(Live(a), last'.k, last'.value)]_vars

\* C4: every PushBack call satisfies the precondition asserted at the top of the
\* Insert overload it delegates to.
C4_PushBackMeetsInsertAssert ==
    last.op \in PushBackOps => last.asserted

\* C5: Resize(n) with size < n < capacity leaves Type() at every index in
\* [old size, n) and the elements at [0, old size) unchanged.
C5_ResizeWithinCapacityValueInitializes ==
    [][(last'.op = "Resize" /\ a.size < last'.k /\ last'.k < a.capacity)
        => /\ \A i \in a.size..(last'.k - 1) : Elem(a', i) = DefaultValue
           /\ \A i \in 0..(a.size - 1) : Elem(a', i) = Elem(a, i)]_vars

\* C6: Resize(n) with n <= capacity, and every Insert and PushBack on a vector
\* with size < capacity, leave capacity and the owned buffer as they were.
C6_NoReallocationWithinCapacity ==
    [][(\/ last'.op = "Resize" /\ last'.k <= a.capacity
        \/ /\ last'.op \in InsertOps \cup PushBackOps
           /\ status' # "assert_abort"
           /\ a.size < a.capacity)
        => /\ a'.capacity = a.capacity
           /\ a'.ptr = a.ptr]_vars

\* C7: Reserve(c) leaves size and the live sequence unchanged and never shrinks
\* capacity: nothing changes when c < capacity, else the capacity becomes c.
C7_ReservePreservesElements ==
    [][last'.op = "Reserve"
        => /\ status' = "running"
           /\ a'.size = a.size
           /\ Live(a') = Live(a)
           /\ a'.capacity >= a.capacity
           /\ last'.k < a.capacity => a' = a
           /\ last'.k >= a.capacity => a'.capacity = last'.k]_vars

\* C8: Erase(begin() + k) removes the element at index k and nothing else:
\* size decreases by 1, capacity is unchanged, and the position k is
\* returned, which is end() when the last element was erased.
C8_EraseRemovesElementAtPosition ==
    [][last'.op = "Erase"
        => /\ status' = "running"
           /\ a'.size = a.size - 1
           /\ Live(a') = RemovedAt(Live(a), last'.k)
           /\ a'.capacity = a.capacity
           /\ last'.ret = [buf |-> a'.ptr, off |-> last'.k]
           /\ last'.k = a.size - 1 => last'.ret = end(a')]_vars

\* C9: Insert(p, v) followed by Erase on the iterator Insert returned restores
\* the live sequence and the size.
C9_InsertEraseRoundTrip ==
    (last.op = "Erase" /\ last.undoes)
        => /\ Live(a) = before
           /\ a.size = Len(before)

\* C10: At(i) throws out_of_range when i >= size, also for size <= i < capacity,
\* and leaves the vector unchanged; when i < size it yields the element
\* operator[](i) yields.
C10_AtChecksAgainstSize ==
    [][last'.op = "At"
        => /\ a' = a
           /\ last'.k >= a.size => last'.thrown
           /\ last'.k < a.size =>
                 ~last'.thrown /\ last'.ret = Subscript(a, last'.k)]_vars

\* C10 witness: At threw for an index of an allocated slot past size.
C10_Witness ==
    /\ last.op = "At"
    /\ last.thrown
    /\ a.size <= last.k
    /\ last.k < a.capacity
    /\ last.k < Len(a.array)

\* C11: PopBack and Clear change the size field and nothing else: PopBack on an
\* empty vector changes nothing and raises no error, on a non-empty vector it
\* lowers size by 1, Clear sets size to 0; capacity, the owned buffer and the
\* elements in its slots stay as they were.
C11_PopBackAndClearOnlyChangeSize ==
    [][last'.op \in {"PopBack", "Clear"}
        => /\ status' = "running"
           /\ ~last'.thrown
           /\ a'.capacity = a.capacity
           /\ a'.ptr = a.ptr
           /\ a'.array = a.array
           /\ (last'.op = "PopBack" /\ a.size = 0) => a' = a
           /\ (last'.op = "PopBack" /\ a.size > 0) => a'.size = a.size - 1
           /\ last'.op = "Clear" => a'.size = 0]_vars

\* C11 witness: PopBack left a shorter vector that still has live elements and
\* its whole buffer.
C11_Witness ==
    /\ last.op = "PopBack"
    /\ status = "running"
    /\ a.size >= 1
    /\ a.size < a.capacity
    /\ a.capacity = Len(a.array)

\* floor(log2(n)) for n >= 1
RECURSIVE Log2Floor(_)
Log2Floor(n) == IF n < 2 THEN 0 ELSE 1 + Log2Floor(n \div 2)

\* C12: after N >= 1 PushBack calls on a default-constructed vector, at most
\* floor(log2(N)) + 2 of the calls have allocated a new buffer, and the
\* capacity is at least N.
C12_AmortizedAppend ==
    (appends.calls >= 1 /\ status = "running")
        => /\ appends.allocs <= Log2Floor(appends.calls) + 2
           /\ a.capacity >= appends.calls

\* C13: when the allocation of the temporary or the copy of an element throws
\* during a = b, a has the size, capacity, buffer and elements it had before
\* the assignment, and b is unchanged.
C13_CopyAssignStrongGuarantee ==
    [][(last'.op = "operator=" /\ last'.thrown)
        => /\ a' = a
           /\ b' = b
           /\ status' = "running"]_vars

\* C13 witness: the copy of an element of b threw while a held other elements.
C13_Witness ==
    /\ last.op = "operator="
    /\ last.thrown
    /\ last.at >= 1
    /\ a.size >= 1
    /\ a.ptr # NullPtr
    /\ Live(a) # Live(b)

\* C14: after SimpleVector b(std::move(a)), and equally after b = std::move(a),
\* b holds the sequence and the size a had, and a is a valid empty vector.
C14_MoveLeavesSourceEmpty ==
    [][last'.op \in {"SimpleVector(&&)", "operator=(std::move)"}
        => /\ status' = "running"
           /\ b'.size = a.size
           /\ Live(b') = Live(a)
           /\ a'.size = 0
           /\ a'.size <= Len(a'.array)]_vars

\* The vectors alive that hold the buffer at p.
Owners(p) ==
    {x \in heap.alive : (IF x = "a" THEN a ELSE b).ptr = p}

\* C15: every allocated buffer is held by exactly one vector, every buffer a
\* vector holds is allocated, and no buffer is released twice; so after all
\* vectors are destroyed no buffer is left allocated.
C15_ExclusiveOwnership ==
    /\ ~heap.twice
    /\ \A p \in heap.live : Cardinality(Owners(p)) = 1
    /\ \A x \in heap.alive :
          LET p == (IF x = "a" THEN a ELSE b).ptr
          IN  p # NullPtr => p \in heap.live

\* C15 witness: both vectors were destroyed after buffers had been allocated
\* at two addresses at least, and nothing is left allocated.
C15_Witness ==
    /\ last.op = "~SimpleVector"
    /\ heap.alive = {}
    /\ heap.live = {}
    /\ Cardinality(heap.released) >= 2

\* C16: after SimpleVector b(a), b has size and capacity a.GetSize() and the
\* element sequence of a, a is unchanged, and b's buffer is not a's: a store
\* into a after the copy leaves b as it was.
C16_CopyConstructionIsDeep ==
    [][/\ last'.op = "SimpleVector(const&)"
          => /\ status' = "running"
             /\ GetSize(b') = GetSize(a)
             /\ GetCapacity(b') = GetSize(a)
             /\ Live(b') = Live(a)
             /\ a' = a
             /\ b'.ptr = NullPtr \/ b'.ptr # a.ptr
       /\ (last.op = "SimpleVector(const&)" /\ last'.op = "operator[]")
          => b' = b]_vars

\* s comes before t in the lexicographic order.
LexBefore(s, t) ==
    \E k \in 0..Len(s) :
        /\ k <= Len(t)
        /\ \A i \in 1..k : s[i] = t[i]
        /\ \/ k = Len(s) /\ k < Len(t)
           \/ k < Len(s) /\ k < Len(t) /\ s[k + 1] < t[k + 1]

\* C17: a == b exactly when a and b have the same size and equal elements at
\* every index below it, whatever their capacities and the values past size;
\* <, <=, >, >= are the lexicographic order of the live sequences; exactly one
\* of a < b, a == b, a > b holds.
C17_ComparisonsOfLiveSequences ==
    last.op = "compare"
        => /\ status = "running"
           /\ last.cmp.eq <=> /\ a.size = b.size
                              /\ \A i \in 0..(a.size - 1) : Elem(a, i) = Elem(b, i)
           /\ last.cmp.ne <=> ~last.cmp.eq
           /\ last.cmp.lt <=> LexBefore(Live(a), Live(b))
           /\ last.cmp.gt <=> LexBefore(Live(b), Live(a))
           /\ last.cmp.le <=> (last.cmp.lt \/ last.cmp.eq)
           /\ last.cmp.ge <=> (last.cmp.gt \/ last.cmp.eq)
           /\ Cardinality({r \in {"lt", "eq", "gt"} : last.cmp[r]}) = 1

\* C18: an Insert or PushBack on a vector with size = capacity leaves twice the
\* old capacity, and capacity 1 when the old capacity was 0; a Resize(n) that
\* replaces the buffer leaves capacity max(n, 2 * old capacity).
C18_GrowthPolicy ==
    [][/\ (/\ last'.op \in InsertOps \cup PushBackOps
           /\ status' # "assert_abort"
           /\ a.size = a.capacity)
          => a'.capacity = IF a.capacity = 0 THEN 1 ELSE 2 * a.capacity
       /\ (last'.op = "Resize" /\ a'.ptr # a.ptr)
          => a'.capacity = Max(last'.k, 2 * a.capacity)]_vars

\* C18 witness: Insert(Type&&) on a full vector of capacity 1 left capacity 2
\* (with size 2 after it, a capacity of 2 before it would have become 4).
C18_Witness ==
    /\ last.op = "Insert(&&)"
    /\ status = "running"
    /\ Len(before) = 1
    /\ a.size = 2
    /\ a.capacity = 2
    /\ Len(a.array) = 2

\* C19: when the Resize inside Insert replaced the buffer, Insert (either
\* overload) goes on in defined behaviour, on the current buffer: the iterator
\* it returns points into that buffer, at the index asked for, which is below
\* the capacity.
C19_InsertUsesCurrentBuffer ==
    [][(/\ last'.op \in InsertOps
        /\ status' # "assert_abort"
        /\ a'.ptr # a.ptr)
        => /\ status' = "running"
           /\ last'.ret.buf = a'.ptr
           /\ last'.ret.off = last'.k
           /\ last'.ret.off < a'.capacity]_vars

\* C20: after every step of the same sequence of Insert and PushBack calls on
\* two vectors that started equal, one through the lvalue overloads and one
\* through the rvalue overloads, the two have the same size, capacity and live
\* sequence.
C20_OverloadsEquivalent ==
    /\ GetSize(a) = GetSize(b)
    /\ GetCapacity(a) = GetCapacity(b)
    /\ Live(a) = Live(b)

====
